---- MODULE Spec2Model ----
(***************************************************************************)
(* A model of roff-rs (src/src/lib.rs): the Roff document, its two         *)
(* builders, the escaping functions and the three render entry points.     *)
(*                                                                         *)
(* A Rust String is modelled as a sequence of one-character strings, so    *)
(* that escaping, searching and prefixing are computed character by        *)
(* character as the code computes them.                                    *)
(***************************************************************************)
EXTENDS Naturals, Sequences, FiniteSets

VARIABLES
    text,      \* SpecEscape: the span text handed to Line::render
    handle,    \* SpecEscape: the Apostrophes policy of the render call
    estage,    \* SpecEscape: position in lines 243-247 of Line::render
    etext,     \* SpecEscape: the local `text` of Line::render
    roff,      \* the mutable Roff: its `lines`
    builder,   \* the RoffBuilder: the `lines` of its `roff`
    built,     \* whether build() consumed the builder, and the Roff it returned
    output,    \* the last String returned by render() / to_roff(), with the entry
               \* point called and the lines the document had then
    w,         \* SpecWriter: the bytes the sink has accepted
    wpos,      \* SpecWriter: number of write calls of to_writer completed
    wresult    \* SpecWriter: "running", "Ok", "Err" or "panic"

vars == <<text, handle, estage, etext, roff, builder, built, output, w, wpos, wresult>>

----------------------------------------------------------------------------
(* Bounds of the model.                                                    *)

MaxLen == 3        \* SpecEscape: longest span text
MaxLineSize == 4   \* SpecText: most spans plus characters of the text line
MaxArgs == 2       \* SpecControl: most arguments of the control line
MaxArgLen == 3     \* SpecControl: longest argument
MaxLines == 2      \* Spec, SpecWriter: most lines of the document

----------------------------------------------------------------------------
(* Strings.                                                                *)

\* No rendering made yet, and no Roff built yet.
NoOutput == [op |-> "none", text |-> <<>>, of |-> <<>>]
NotBuilt == [done |-> FALSE, lines |-> <<>>]

NL == "\n"
BS == "\\"

\* s[from..] as in Rust slicing (1-based here).
Skip(s, n) == SubSeq(s, n + 1, Len(s))

\* str::starts_with
StartsWith(s, p) == Len(p) <= Len(s) /\ SubSeq(s, 1, Len(p)) = p

\* str::contains
Contains(s, p) == \E i \in 0..(Len(s) - Len(p)) : SubSeq(s, i + 1, i + Len(p)) = p

\* Number of places at which p occurs in s.
Count(p, s) == Cardinality({i \in 0..(Len(s) - Len(p)) : SubSeq(s, i + 1, i + Len(p)) = p})

\* str::replace: every non-overlapping match of `from`, left to right.
RECURSIVE Replace(_, _, _)
Replace(s, from, to) ==
    IF s = <<>> THEN <<>>
    ELSE IF StartsWith(s, from) THEN to \o Replace(Skip(s, Len(from)), from, to)
    ELSE <<Head(s)>> \o Replace(Tail(s), from, to)

\* Concatenation of a sequence of strings.
RECURSIVE Concat(_)
Concat(ss) == IF ss = <<>> THEN <<>> ELSE Head(ss) \o Concat(Tail(ss))

\* All strings over alphabet A of length at most n.
RECURSIVE Strings(_, _)
Strings(A, n) ==
    IF n = 0 THEN {<<>>}
    ELSE LET shorter == Strings(A, n - 1)
         IN shorter \cup {<<c>> \o s : c \in A, s \in {t \in shorter : Len(t) = n - 1}}

----------------------------------------------------------------------------
(* Constants of the library.                                               *)

APOSTROPHE_PREABMLE ==
    <<".", "i", "e", " ", BS, "n", "(", ".", "g", " ", ".", "d", "s", " ",
      "A", "q", " ", BS, "(", "a", "q", NL,
      ".", "e", "l", " ", ".", "d", "s", " ", "A", "q", " ", "'", NL>>

APOSTROPHE == <<BS, "*", "(", "A", "q">>

Handle == "Handle"
DontHandle == "DontHandle"
Apostrophes == {Handle, DontHandle}

----------------------------------------------------------------------------
(* The escaping functions.                                                 *)

starts_with_cc(line) == StartsWith(line, <<".">>) \/ StartsWith(line, <<"'">>)

\* Mutant of escape_spaces: looks for the space at the start only.
escape_spaces_leading_only(arg) ==
    IF StartsWith(arg, <<" ">>) THEN <<"\"">> \o arg \o <<"\"">> ELSE arg

escape_spaces(arg) ==
    IF Contains(arg, <<" ">>) THEN <<"\"">> \o arg \o <<"\"">> ELSE arg

escape_leading_cc(s) ==
    Replace(Replace(s, <<NL, ".">>, <<NL, BS, "&", ".">>), <<NL, "'">>, <<NL, BS, "&", "'">>)

\* Mutant of escape_inline: the two replacements in the other order.
escape_inline_dash_first(t) == Replace(Replace(t, <<"-">>, <<BS, "-">>), <<BS>>, <<BS, BS>>)

escape_inline(t) == Replace(Replace(t, <<BS>>, <<BS, BS>>), <<"-">>, <<BS, "-">>)

\* Mutant of escape_apostrophes: replaces the first apostrophe only.
escape_apostrophes_once(t) ==
    IF \E i \in 1..Len(t) : t[i] = "'"
    THEN LET i == CHOOSE j \in 1..Len(t) : t[j] = "'" /\ \A k \in 1..(j - 1) : t[k] # "'"
         IN  SubSeq(t, 1, i - 1) \o APOSTROPHE \o Skip(t, i)
    ELSE t

escape_apostrophes(t) == Replace(t, <<"'">>, APOSTROPHE)

----------------------------------------------------------------------------
(* SpecEscape: lines 243-247 of Line::render, applied to one span text     *)
(* under one policy, one statement at a time.                              *)

EscapeAlphabet == {".", "'", NL, BS, "-", "a"}

InitEscape ==
    /\ text \in Strings(EscapeAlphabet, MaxLen)
    /\ handle \in Apostrophes
    /\ estage = "start"
    /\ etext = <<>>
    /\ roff = <<>> /\ builder = <<>> /\ built = NotBuilt /\ output = NoOutput
    /\ w = <<>> /\ wpos = 0 /\ wresult = "running"

rest_escape == <<roff, builder, built, output, w, wpos, wresult>>

\* let mut text = escape_inline(text);
EscapeInline ==
    /\ estage = "start"
    /\ etext' = escape_inline(text)
    /\ estage' = "inline"
    /\ UNCHANGED <<text, handle>> /\ UNCHANGED rest_escape

\* if handle_apostrophes == Apostrophes::Handle { text = escape_apostrophes(&text) };
EscapeApostrophes ==
    /\ estage = "inline"
    /\ etext' = IF handle = Handle THEN escape_apostrophes(etext) ELSE etext
    /\ estage' = "apostrophes"
    /\ UNCHANGED <<text, handle>> /\ UNCHANGED rest_escape

\* let text = escape_leading_cc(&text);
EscapeLeadingCc ==
    /\ estage = "apostrophes"
    /\ etext' = escape_leading_cc(etext)
    /\ estage' = "leading"
    /\ UNCHANGED <<text, handle>> /\ UNCHANGED rest_escape

NextEscape == EscapeInline \/ EscapeApostrophes \/ EscapeLeadingCc

SpecEscape == InitEscape /\ [][NextEscape]_vars

----------------------------------------------------------------------------
(* The data model: Inline, Line, Roff, RoffBuilder.                        *)

roman(input) == [kind |-> "Roman", text |-> input]
bold(input) == [kind |-> "Bold", text |-> input]
italic(input) == [kind |-> "Italic", text |-> input]
line_break == [kind |-> "LineBreak"]

Line_control(name, args) == [tag |-> "Control", name |-> name, args |-> args]
Line_text(parts) == [tag |-> "Text", inlines |-> parts]

\* Mutant of Roff::control: the line is put in front instead of pushed.
Roff_control_in_front(lines, name, args) == <<Line_control(name, args)>> \o lines

\* Roff::control and Roff::text: self.lines.push(..)
Roff_control(lines, name, args) == Append(lines, Line_control(name, args))
Roff_text(lines, inlines) == Append(lines, Line_text(inlines))

\* RoffBuilder::control, ::text and ::build: the builder owns a Roff and
\* hands every call to it; build moves the Roff out.
RoffBuilder_control(b, name, args) == Roff_control(b, name, args)
\* Mutant of RoffBuilder::text: returns self without the new line.
RoffBuilder_text_dropped(b, inlines) == b

RoffBuilder_text(b, inlines) == Roff_text(b, inlines)
RoffBuilder_build(b) == b

----------------------------------------------------------------------------
(* Line::render.  Its value is the sequence of write calls it makes on     *)
(* `out`, in order.  Each write records the bytes written, whether the     *)
(* code unwraps its result (line 265) instead of propagating it with `?`,  *)
(* and which statement made it.                                            *)

Wr(bytes, unwrap, from) == [bytes |-> bytes, unwrap |-> unwrap, from |-> from]

\* Mutant of lines 243-247: escape_apostrophes applied to the span's own text,
\* which drops the result of escape_inline under Handle.
EscapedText_apostrophes_of_raw(t, handle_apostrophes) ==
    LET text1 == escape_inline(t)
        text2 == IF handle_apostrophes = Handle THEN escape_apostrophes(t) ELSE text1
    IN  escape_leading_cc(text2)

\* Lines 243-247: the escaped text of a Roman, Italic or Bold span.
EscapedText(t, handle_apostrophes) ==
    LET text1 == escape_inline(t)
        text2 == IF handle_apostrophes = Handle THEN escape_apostrophes(text1) ELSE text1
    IN  escape_leading_cc(text2)

\* Lines 234-270: one iteration of the loop over the inlines.
InlineWrites(inline, at_line_start, handle_apostrophes) ==
    IF inline.kind = "LineBreak" THEN
        IF at_line_start
        THEN <<Wr(<<".", "b", "r", NL>>, FALSE, "br")>>
        ELSE <<Wr(<<NL, ".", "b", "r", NL>>, FALSE, "br")>>
    ELSE
        LET t == EscapedText(inline.text, handle_apostrophes)
        IN  IF inline.kind = "Bold"
            THEN <<Wr(<<BS, "f", "B">> \o t \o <<BS, "f", "R">>, FALSE, "span")>>
            ELSE IF inline.kind = "Italic"
            THEN <<Wr(<<BS, "f", "I">> \o t \o <<BS, "f", "R">>, FALSE, "span")>>
            ELSE (IF at_line_start /\ starts_with_cc(t)
                  THEN <<Wr(<<BS, "&">>, TRUE, "guard")>>
                  ELSE <<>>)
                 \o <<Wr(t, FALSE, "span")>>

\* Lines 229-272: the loop; at_line_start is true for the first inline only.
RECURSIVE TextWrites(_, _, _)
TextWrites(inlines, at_line_start, handle_apostrophes) ==
    IF inlines = <<>> THEN <<>>
    ELSE InlineWrites(Head(inlines), at_line_start, handle_apostrophes)
         \o TextWrites(Tail(inlines), FALSE, handle_apostrophes)

\* Lines 222-227: a control line.
ControlWrites(name, args) ==
    <<Wr(<<".">> \o name, FALSE, "control")>>
    \o [i \in 1..Len(args) |-> Wr(<<" ">> \o escape_spaces(args[i]), FALSE, "control")]

Line_render(line, handle_apostrophes) ==
    (IF line.tag = "Control"
     THEN ControlWrites(line.name, line.args)
     ELSE TextWrites(line.inlines, TRUE, handle_apostrophes))
    \o <<Wr(<<NL>>, FALSE, "eol")>>

\* The bytes of a sequence of writes, all of which succeeded.
Bytes(writes) == Concat([i \in 1..Len(writes) |-> writes[i].bytes])

\* Mutant of Roff::to_writer: the preamble written inside the loop.
ToWriterWrites_preamble_in_loop(lines) ==
    Concat([i \in 1..Len(lines) |->
              <<Wr(APOSTROPHE_PREABMLE, FALSE, "preamble")>> \o Line_render(lines[i], Handle)])

\* Roff::to_writer: the preamble, then every line with Apostrophes::Handle.
ToWriterWrites(lines) ==
    <<Wr(APOSTROPHE_PREABMLE, FALSE, "preamble")>>
    \o Concat([i \in 1..Len(lines) |-> Line_render(lines[i], Handle)])

\* Roff::render: to_writer into a Vec, whose writes always succeed.
Roff_render(lines) == Bytes(ToWriterWrites(lines))

\* Roff::to_roff: every line with Apostrophes::DontHandle, no preamble.
ToRoffWrites(lines) == Concat([i \in 1..Len(lines) |-> Line_render(lines[i], DontHandle)])

Roff_to_roff(lines) == Bytes(ToRoffWrites(lines))

----------------------------------------------------------------------------
(* The operations on a document.  Control and Text make the same call on   *)
(* the mutable Roff and on the value-chained RoffBuilder.                  *)

rest_doc == <<text, handle, estage, etext, w, wpos, wresult>>

InitDoc ==
    /\ roff = <<>>
    /\ builder = <<>>
    /\ built = NotBuilt
    /\ output = NoOutput
    /\ text = <<>> /\ handle = Handle /\ estage = "start" /\ etext = <<>>
    /\ w = <<>> /\ wpos = 0 /\ wresult = "running"

Control(name, args) ==
    /\ ~built.done
    /\ roff' = Roff_control(roff, name, args)
    /\ builder' = RoffBuilder_control(builder, name, args)
    /\ UNCHANGED <<built, output>> /\ UNCHANGED rest_doc

Text(inlines) ==
    /\ ~built.done
    /\ roff' = Roff_text(roff, inlines)
    /\ builder' = RoffBuilder_text(builder, inlines)
    /\ UNCHANGED <<built, output>> /\ UNCHANGED rest_doc

Build ==
    /\ ~built.done
    /\ built' = [done |-> TRUE, lines |-> RoffBuilder_build(builder)]
    /\ builder' = <<>>
    /\ UNCHANGED <<roff, output>> /\ UNCHANGED rest_doc

Render ==
    /\ output' = [op |-> "render", text |-> Roff_render(roff), of |-> roff]
    /\ UNCHANGED <<roff, builder, built>> /\ UNCHANGED rest_doc

ToRoff ==
    /\ output' = [op |-> "to_roff", text |-> Roff_to_roff(roff), of |-> roff]
    /\ UNCHANGED <<roff, builder, built>> /\ UNCHANGED rest_doc

----------------------------------------------------------------------------
(* SpecText: one text() call with every line whose spans and characters    *)
(* number at most MaxLineSize together, then render() and to_roff().       *)

SpanAlphabet == {".", "'", NL, "a"}

Kinds == {"Roman", "Italic", "Bold"}

\* The spans whose text has exactly n characters (LineBreak counts as 0).
SpansOfLen(n) ==
    {[kind |-> k, text |-> t] : k \in Kinds,
                                t \in {s \in Strings(SpanAlphabet, n) : Len(s) = n}}
    \cup (IF n = 0 THEN {line_break} ELSE {})

\* The span sequences whose number of spans plus number of characters is at
\* most n.
RECURSIVE InlineSeqs(_)
InlineSeqs(n) ==
    IF n = 0 THEN {<<>>}
    ELSE {<<>>} \cup UNION {{<<sp>> \o rest : sp \in SpansOfLen(k), rest \in InlineSeqs(n - 1 - k)}
                            : k \in 0..(n - 1)}

TextLines == InlineSeqs(MaxLineSize)

NextText ==
    \/ roff = <<>> /\ \E inlines \in TextLines : Text(inlines)
    \/ Render
    \/ ToRoff

SpecText == InitDoc /\ [][NextText]_vars

----------------------------------------------------------------------------
(* SpecControl: one control() call with every argument list of at most     *)
(* MaxArgs arguments of at most MaxArgLen characters, then the renderings. *)

ArgAlphabet == {"a", " "}

ControlNames == {<<"f", "o", "o">>, <<"T", "H">>}

ArgLists == UNION {[1..n -> Strings(ArgAlphabet, MaxArgLen)] : n \in 0..MaxArgs}

NextControl ==
    \/ roff = <<>> /\ \E name \in ControlNames, args \in ArgLists : Control(name, args)
    \/ Render
    \/ ToRoff

SpecControl == InitDoc /\ [][NextControl]_vars

----------------------------------------------------------------------------
(* Spec: documents of at most MaxLines lines, built by control() and       *)
(* text() calls with arguments from a pool, built by the builder, and      *)
(* rendered at any point.                                                  *)

\* The arguments that, with the names ie and el, spell the two preamble lines.
IeArgs == << <<BS, "n", "(", ".", "g">>, <<".", "d", "s">>, <<"A", "q">>, <<BS, "(", "a", "q">> >>
ElArgs == << <<".", "d", "s">>, <<"A", "q">>, <<"'">> >>

DocNames == {<<"i", "e">>, <<"e", "l">>}

DocArgLists == {<<>>, IeArgs, ElArgs}

DocTexts ==
    { <<roman(<<".", "a">>)>>,
      <<bold(<<"a", "'", "-">>), line_break, italic(<<"b">>)>>,
      <<roman(<<"a", BS, "n">>)>> }

Next ==
    \/ Len(roff) < MaxLines /\ \E name \in DocNames, args \in DocArgLists : Control(name, args)
    \/ Len(roff) < MaxLines /\ \E inlines \in DocTexts : Text(inlines)
    \/ Build
    \/ Render
    \/ ToRoff

Spec == InitDoc /\ [][Next]_vars

----------------------------------------------------------------------------
(* SpecWriter: Roff::to_writer on a sink that may fail at any write call.  *)
(* A failing write_all may have passed any proper prefix of its bytes on.  *)

DocLinePool ==
    {Line_control(name, args) : name \in DocNames, args \in DocArgLists}
    \cup {Line_text(inlines) : inlines \in DocTexts}

Docs == UNION {[1..n -> DocLinePool] : n \in 0..MaxLines}

InitWriter ==
    /\ roff \in Docs
    /\ w = <<>>
    /\ wpos = 0
    /\ wresult = "running"
    /\ builder = <<>> /\ built = NotBuilt /\ output = NoOutput
    /\ text = <<>> /\ handle = Handle /\ estage = "start" /\ etext = <<>>

rest_writer == <<text, handle, estage, etext, roff, builder, built, output>>

\* The next write call succeeds.
WriteOk ==
    /\ wresult = "running"
    /\ wpos < Len(ToWriterWrites(roff))
    /\ w' = w \o ToWriterWrites(roff)[wpos + 1].bytes
    /\ wpos' = wpos + 1
    /\ UNCHANGED wresult /\ UNCHANGED rest_writer

\* The next write call fails: `?` returns the error, unwrap() panics.
WriteFail ==
    /\ wresult = "running"
    /\ wpos < Len(ToWriterWrites(roff))
    /\ LET wr == ToWriterWrites(roff)[wpos + 1]
       IN  /\ \E k \in 0..(Len(wr.bytes) - 1) : w' = w \o SubSeq(wr.bytes, 1, k)
           /\ wresult' = IF wr.unwrap THEN "panic" ELSE "Err"
    /\ UNCHANGED wpos /\ UNCHANGED rest_writer

\* Ok(()) after the last line.
WriterReturn ==
    /\ wresult = "running"
    /\ wpos = Len(ToWriterWrites(roff))
    /\ wresult' = "Ok"
    /\ UNCHANGED <<w, wpos>> /\ UNCHANGED rest_writer

NextWriter == WriteOk \/ WriteFail \/ WriterReturn

SpecWriter == InitWriter /\ [][NextWriter]_vars

----------------------------------------------------------------------------
(* What a rendering in `output` is a rendering of.                         *)

\* The policy each entry point hands to Line::render (lines 120 and 140).
PolicyOf(op) == IF op = "render" THEN Handle ELSE DontHandle

\* The writes behind `output`, and the origin of each of its characters.
OutputWrites == IF output.op = "render" THEN ToWriterWrites(output.of) ELSE ToRoffWrites(output.of)

Origins(writes) ==
    Concat([i \in 1..Len(writes) |-> [j \in 1..Len(writes[i].bytes) |-> writes[i].from]])

\* `output` without the preamble that render() puts in front.
OutputBody ==
    IF output.op = "render" THEN Skip(output.text, Len(APOSTROPHE_PREABMLE)) ELSE output.text

IsLineStart(s, p) == p = 1 \/ s[p - 1] = NL

\* `output` is a rendering of a document of one text line / one control line.
OneTextLine == output # NoOutput /\ Len(output.of) = 1 /\ output.of[1].tag = "Text"
OneControlLine == output # NoOutput /\ Len(output.of) = 1 /\ output.of[1].tag = "Control"

\* Number of apostrophes in the span texts of a text line.
ApostrophesIn(inlines) ==
    Len(Concat([i \in 1..Len(inlines) |->
                  IF inlines[i].kind = "LineBreak" THEN <<>>
                  ELSE SelectSeq(inlines[i].text, LAMBDA c : c = "'")]))

----------------------------------------------------------------------------
(* Claims about the escaping of one span text (SpecEscape).                *)

\* C4 (as claimed): in the text of a span, under both policies, every newline
\* immediately followed by '.' or "'" is rendered as newline, \&, that
\* character, and the rendered span has no newline directly followed by '.' or
\* "'".  The code breaks it under Handle, where "\n'" becomes "\n\*(Aq".
C4_NewlineCcGuarded ==
    estage = "leading" =>
        /\ ~Contains(etext, <<NL, ".">>)
        /\ ~Contains(etext, <<NL, "'">>)
        /\ Count(<<NL, BS, "&", ".">>, etext) = Count(<<NL, ".">>, text)
        /\ Count(<<NL, BS, "&", "'">>, etext) = Count(<<NL, "'">>, text)

C5_EscapeChar(c) == IF c = BS THEN <<BS, BS>> ELSE IF c = "-" THEN <<BS, "-">> ELSE <<c>>

\* C5: escape_inline(text) is the character-by-character mapping of text in
\* which a backslash becomes two backslashes, a hyphen becomes \- and every
\* other character is unchanged.
C5_EscapeInlineIsCharMap ==
    estage = "inline" => etext = Concat([i \in 1..Len(text) |-> C5_EscapeChar(text[i])])

\* C5 witness: the test escape_backslash_and_dash, "\-" became "\\\-".
C5_Witness ==
    estage = "inline" /\ text = <<BS, "-">> /\ etext = <<BS, BS, BS, "-">>

----------------------------------------------------------------------------
(* Claims about one text line (SpecText).                                  *)

\* C1 (as claimed): under render() and to_roff(), every output line that comes
\* from a text line and begins with '.' or "'" is a .br line emitted for a
\* LineBreak span.  The code breaks it for a span that follows a LineBreak, an
\* empty span or a span ending in a newline.
C1_TextNeverControlLine ==
    OneTextLine =>
        \A p \in 1..Len(output.text) :
            (/\ Origins(OutputWrites)[p] \in {"br", "guard", "span", "eol"}
             /\ IsLineStart(output.text, p)
             /\ output.text[p] \in {".", "'"})
            => Origins(OutputWrites)[p] = "br"

FontEscape(kind) ==
    IF kind = "Bold" THEN <<BS, "f", "B">> ELSE IF kind = "Italic" THEN <<BS, "f", "I">> ELSE <<>>

\* C3 (as claimed): when the first span of a text line is Roman, Italic or Bold
\* and its escaped text starts with '.' or "'", the rendering puts \& immediately
\* before that character, for each of the three kinds.  The code does so for
\* Roman only.
C3_LeadingCcGuarded ==
    (/\ OneTextLine
     /\ output.of[1].inlines # <<>>
     /\ output.of[1].inlines[1].kind \in Kinds) =>
        LET first == output.of[1].inlines[1]
            t == EscapedText(first.text, PolicyOf(output.op))
        IN  starts_with_cc(t) =>
                StartsWith(OutputBody, FontEscape(first.kind) \o <<BS, "&">> \o t)

\* C6: under render() every apostrophe of span text is replaced by \*(Aq and
\* none appears literally; under to_roff() the apostrophes are emitted literally
\* and none is replaced by \*(Aq.
C6_ApostrophesByPolicy ==
    OneTextLine =>
        LET n == ApostrophesIn(output.of[1].inlines)
        IN  IF output.op = "render"
            THEN /\ StartsWith(output.text, APOSTROPHE_PREABMLE)
                 /\ Count(<<"'">>, OutputBody) = 0
                 /\ Count(APOSTROPHE, OutputBody) = n
            ELSE /\ Count(<<"'">>, OutputBody) = n
                 /\ Count(APOSTROPHE, OutputBody) = 0

\* C6 witness: render() of a line whose spans hold two apostrophes.
C6_Witness ==
    /\ OneTextLine
    /\ output.op = "render"
    /\ ApostrophesIn(output.of[1].inlines) = 2
    /\ Count(APOSTROPHE, OutputBody) = 2

IsPlain(s) == \A i \in 1..Len(s) : s[i] = "a"

\* C9 (as claimed): under to_roff(), a LineBreak that is the first span renders
\* as .br with no newline before it, a text line that is a single LineBreak
\* renders as the one line .br, and in Roman(x), LineBreak, Roman(y) the
\* LineBreak renders as newline, .br and y starts on the next line.  The code
\* breaks the second part: it ends every text line with one more newline.
C9_LineBreakRendering ==
    (OneTextLine /\ output.op = "to_roff" /\ output.of[1].inlines # <<>>) =>
        LET inlines == output.of[1].inlines
        IN  /\ inlines[1] = line_break => StartsWith(output.text, <<".", "b", "r">>)
            /\ inlines = <<line_break>> => output.text = <<".", "b", "r", NL>>
            /\ (/\ Len(inlines) = 3
                /\ inlines[1].kind = "Roman" /\ IsPlain(inlines[1].text) /\ inlines[1].text # <<>>
                /\ inlines[2] = line_break
                /\ inlines[3].kind = "Roman" /\ IsPlain(inlines[3].text))
               => output.text = inlines[1].text \o <<NL, ".", "b", "r", NL>>
                                \o inlines[3].text \o <<NL>>

----------------------------------------------------------------------------
(* Claims about one control line (SpecControl).                            *)

C8_Arg(a) == IF \E i \in 1..Len(a) : a[i] = " " THEN <<"\"">> \o a \o <<"\"">> ELSE a

\* C8: a control line renders as '.' and its name, then for each argument in
\* order one space and the argument, in double quotes if and only if it
\* contains a space, and finally exactly one newline.
C8_ControlLineRendering ==
    OneControlLine =>
        LET line == output.of[1]
        IN  OutputBody = <<".">> \o line.name
                         \o Concat([i \in 1..Len(line.args) |-> <<" ">> \o C8_Arg(line.args[i])])
                         \o <<NL>>

\* C8 witness: the shape of the test render_control, one argument without a
\* space and one with a space inside.
C8_Witness ==
    /\ OneControlLine
    /\ output.op = "to_roff"
    /\ output.of[1] = Line_control(<<"f", "o", "o">>, << <<"a">>, <<"a", " ", "a">> >>)
    /\ output.text = <<".", "f", "o", "o", " ", "a", " ", "\"", "a", " ", "a", "\"", NL>>

----------------------------------------------------------------------------
(* Claims about to_writer on a failing sink (SpecWriter).                  *)

\* C2 (as claimed): to_writer reports every write failure of the sink as an
\* Err value and never panics, at whichever write call the sink fails (the
\* \& guard included); it returns Ok only with the whole rendering written.
\* The code breaks it: the write of the \& guard is unwrapped.
C2_WriteFailureIsErr ==
    /\ wresult # "panic"
    /\ wresult = "Ok" => w = Roff_render(roff)

----------------------------------------------------------------------------
(* Claims about documents (Spec).                                          *)

\* C7 (as claimed): for every document the output of render() starts with the
\* preamble and holds it exactly once, and the output of to_roff() does not
\* hold it at all.
C7_PreambleExactlyOnce ==
    /\ output.op = "render" =>
           StartsWith(output.text, APOSTROPHE_PREABMLE) /\ Count(APOSTROPHE_PREABMLE, output.text) = 1
    /\ output.op = "to_roff" => Count(APOSTROPHE_PREABMLE, output.text) = 0

HasBackslash(s) == \E i \in 1..Len(s) : s[i] = BS

\* No control line of the document has a backslash in its name or arguments.
NoBackslashInControls(lines) ==
    \A i \in 1..Len(lines) :
        lines[i].tag = "Control" =>
            /\ ~HasBackslash(lines[i].name)
            /\ \A j \in 1..Len(lines[i].args) : ~HasBackslash(lines[i].args[j])

\* C7 (amended): for every document the output of render() starts with the
\* preamble; if no control line of the document has a backslash in its name or
\* arguments, render() holds the preamble exactly once and to_roff() does not
\* hold it at all.
C7_PreambleOnceUnlessSpelled ==
    /\ output.op = "render" => StartsWith(output.text, APOSTROPHE_PREABMLE)
    /\ (output.op = "render" /\ NoBackslashInControls(output.of)) =>
           Count(APOSTROPHE_PREABMLE, output.text) = 1
    /\ (output.op = "to_roff" /\ NoBackslashInControls(output.of)) =>
           Count(APOSTROPHE_PREABMLE, output.text) = 0

\* C7 witness: render() of a control line then a text line with a backslash.
C7_Witness ==
    /\ output.op = "render"
    /\ Len(output.of) = 2
    /\ output.of[1] = Line_control(<<"e", "l">>, ElArgs)
    /\ output.of[2] = Line_text(<<roman(<<"a", BS, "n">>)>>)
    /\ Count(APOSTROPHE_PREABMLE, output.text) = 1

\* C10: the Roff that build() returns after a sequence of control and text
\* calls on RoffBuilder::default() equals the mutable Roff::default() after the
\* same calls, and the two give the same render() and to_roff() output.
C10_BuilderEqualsMutable ==
    built.done =>
        /\ built.lines = roff
        /\ Roff_render(built.lines) = Roff_render(roff)
        /\ Roff_to_roff(built.lines) = Roff_to_roff(roff)

\* C10 witness: build() after a control call and a text call.
C10_Witness ==
    /\ built.done
    /\ Len(built.lines) = 2
    /\ built.lines[1].tag = "Control"
    /\ built.lines[2].tag = "Text"

\* C11: the document's lines are the appended lines in append order (an append
\* puts one line of the call behind the lines already there), to_roff() is the
\* concatenation, in that order, of each line's own rendering, an append leaves
\* the earlier to_roff() output an unchanged prefix of the new one, and
\* rendering never changes the document.
C11_AppendOrderIsRenderOrder ==
    /\ [](output.op = "to_roff" =>
            output.text = Concat([i \in 1..Len(output.of) |-> Roff_to_roff(<<output.of[i]>>)]))
    /\ [][roff' # roff =>
            /\ \E line \in DocLinePool : roff' = Append(roff, line)
            /\ StartsWith(Roff_to_roff(roff'), Roff_to_roff(roff))
            /\ output' = output]_vars
    /\ [][output' # output => (roff' = roff /\ output'.of = roff)]_vars

\* C11 witness: a line appended after to_roff() of a one-line document; the
\* earlier output is a proper prefix of the rendering of the two lines.
C11_Witness ==
    /\ output.op = "to_roff"
    /\ Len(output.of) = 1
    /\ Len(roff) = 2
    /\ roff[1] = output.of[1]
    /\ StartsWith(Roff_to_roff(roff), output.text)
    /\ Len(output.text) < Len(Roff_to_roff(roff))

\* No Roman, Italic or Bold span of the document has an apostrophe in its text.
NoApostropheInSpans(lines) ==
    \A i \in 1..Len(lines) : lines[i].tag = "Text" => ApostrophesIn(lines[i].inlines) = 0

\* C12: for every document in which no span text has an apostrophe, render()
\* is the preamble immediately followed by to_roff(); control lines render the
\* same under both policies, whatever their arguments hold.
C12_RenderIsPreambleThenToRoff ==
    /\ (output.op = "render" /\ NoApostropheInSpans(output.of)) =>
           output.text = APOSTROPHE_PREABMLE \o Roff_to_roff(output.of)
    /\ (output.op = "to_roff" /\ NoApostropheInSpans(output.of)) =>
           APOSTROPHE_PREABMLE \o output.text = Roff_render(output.of)
    /\ output.op # "none" =>
           \A i \in 1..Len(output.of) :
               output.of[i].tag = "Control" =>
                   Bytes(Line_render(output.of[i], Handle)) = Bytes(Line_render(output.of[i], DontHandle))

\* C12 witness: render() of a control line with an apostrophe among its
\* arguments and a text line with a backslash and no apostrophe.
C12_Witness ==
    /\ output.op = "render"
    /\ output.of = <<Line_control(<<"e", "l">>, ElArgs), Line_text(<<roman(<<"a", BS, "n">>)>>)>>
    /\ output.text = APOSTROPHE_PREABMLE \o Roff_to_roff(output.of)
    /\ Contains(output.text, <<"a", BS, BS, "n", NL>>)

====
